---- MODULE Spec2Model ----
(***************************************************************************)
(* Model of src/script.js: the FinanceDB wrapper over the browser's        *)
(* IndexedDB store and the FinanceApp handlers that use it.                *)
(*                                                                         *)
(* The host is single threaded: a handler runs until it awaits a store     *)
(* request, and resumes when that request's transaction completes.  The    *)
(* variable queue holds the store transactions that were created and have  *)
(* not completed yet, in creation order, each with the continuation of the *)
(* handler that waits for it.  A user event may arrive between any two     *)
(* completions.                                                            *)
(***************************************************************************)
EXTENDS Integers, Sequences, FiniteSets, TLC

VARIABLES
    dbExists,      \* the database FinanceAppDB exists on disk
    categories,    \* object store 'categories' (keyPath id, autoIncrement)
    transactions,  \* object store 'transactions' (keyPath id, autoIncrement)
    budgets,       \* object store 'budgets' (keyPath id, explicit)
    catKey,        \* key generator of 'categories': the next key it gives
    txKey,         \* key generator of 'transactions'
    connected,     \* FinanceDB.db is set (connect() resolved) in this page
    openFailed,    \* the open request of this page load failed (connect() rejected)
    seededNow,     \* this page load created the database (first-ever open)
    catRead,       \* a getAll('categories') result was delivered in this page load
    views,         \* what the budget table and the dashboard on the page were
                   \* computed from (recorded only when the page is observed)
    charts,        \* FinanceApp.charts: the chart handle registered in each slot
    undestroyed,   \* the chart handles created in this page and not destroyed
    document,      \* the ids of the elements the page's document has
    currentMonth,  \* FinanceApp.currentMonth
    editingTxId,   \* FinanceApp.editingTxId (NULL when not editing)
    queue,         \* store transactions created and not yet completed
    ops,           \* number of user events so far
    last           \* what the last step did (an event record)

vars == <<dbExists, categories, transactions, budgets, catKey, txKey,
          connected, openFailed, seededNow, catRead, views, charts,
          undestroyed, document, currentMonth, editingTxId, queue, ops, last>>

-----------------------------------------------------------------------------
(* Bounds and input sets *)

MaxOps == 2          \* user events in one behaviour
MaxInFlight == 2     \* handlers (with the refresh they start) in flight

NULL == 0            \* null / no id (store keys start at 1)

\* src/script.js:36
defaults == <<"Alimentacion", "Transporte", "Ocio", "Servicios", "Salud",
              "Educacion", "Otros">>

\* new Date() when the page is loaded
Now == [year |-> 2024, month |-> 3]

NameInputs == {"Alimentacion", "Viajes"}
CatIdInputs == {1}
TxIdInputs == {1}
\* what the transaction form held at the submits of an earlier visit
TxInputs ==
    { [type |-> "expense", amount |-> 50, date |-> "2024-03-01",
       category |-> "Alimentacion", desc |-> "pan"],
      [type |-> "income", amount |-> 30, date |-> "2024-04-15",
       category |-> "Transporte", desc |-> ""] }
\* what the transaction form holds at a submit of this visit
NewTxInputs == {f \in TxInputs : f.type = "expense"}
\* what the budget form holds at submit
BudgetInputs ==
    { [category |-> "Alimentacion", amount |-> 100],
      [category |-> "Alimentacion", amount |-> 200] }
NewCategoryInputs == {"", "Viajes"}
MonthInputs == {"2024-04"}
ConfirmInputs == BOOLEAN   \* what confirm() returns
\* what prompt() returns: null on cancel, else the text
PromptInputs ==
    {[ok |-> FALSE, value |-> ""]} \cup
    {[ok |-> TRUE, value |-> n] : n \in NameInputs \cup {""}}

-----------------------------------------------------------------------------
(* The object stores *)

Keys(store) == {r.id : r \in store}

\* IDBObjectStore.put: replace the record with that key, or insert it
StorePut(store, rec) == {r \in store : r.id # rec.id} \cup {rec}

\* (a delete that empties the store when it finds the key)
StoreDeleteAll(store, id) == IF id \in Keys(store) THEN {} ELSE store

\* IDBObjectStore.delete: remove the record with that key, if any
StoreDelete(store, id) == {r \in store : r.id # id}

\* IDBObjectStore.add on an autoIncrement store: the generator gives the key
StoreAdd(store, data, key) == store \cup {data @@ [id |-> key]}

\* (a delete that rejects when no record has the key)
DeleteRejectsMissing(store, id) == id \in Keys(store)

\* FinanceDB.delete: the promise resolves when the transaction completes,
\* whether or not a record had that key
DeleteResolves(store, id) == TRUE

\* (a lookup that falls back on another record when the key is missing)
FindOrAny(records, id) ==
    IF \E r \in records : r.id = id THEN {r \in records : r.id = id}
    ELSE IF records = {} THEN {} ELSE {CHOOSE r \in records : TRUE}

\* Array.prototype.find(c => c.id === id): the records with that key
Find(records, id) == {r \in records : r.id = id}

Snapshot == [cats |-> categories, txs |-> transactions, buds |-> budgets]

NoEvent == [op |-> "none"]

\* the budget table and the dashboard of a page that has rendered neither
NoViews == [budgets |-> [none |-> TRUE], dashboard |-> [none |-> TRUE]]

\* the ids of the four canvases, in the order renderCharts takes them
ChartSlots == <<"chart-categories", "chart-distribution", "chart-balance-trend",
                "chart-budget-vs-real">>

\* this.charts = {}: no slot holds a handle
NoCharts == [i \in DOMAIN ChartSlots |-> NULL]

\* the elements FinanceApp looks up before it draws or listens: the period
\* selector, the budget table, the KPI block and the four canvases
WholeDocument ==
    {"global-month", "budget-list", "kpi-income"}
        \cup {ChartSlots[i] : i \in DOMAIN ChartSlots}

\* document.getElementById(id) gives an element
HasElement(page, id) == id \in page

\* the page's tables and charts are not recorded
Unobserved == [observed |-> "nothing"]

\* each render is recorded as it happens, the content of the page is not kept
NotKept == [observed |-> "renders"]

\* a render replaces the content of one of the two views
Shown(v, view, from) ==
    IF v \in {Unobserved, NotKept} THEN v ELSE [v EXCEPT ![view] = from]

-----------------------------------------------------------------------------
(* The queue of store transactions *)

\* a store transaction: what it does (op, arg), the stores in its scope,
\* whether it writes, the continuation of the handler that waits for it (k)
\* and that handler's local variables (loc)
Request(op, scope, rw, arg, k, loc) ==
    [op |-> op, scope |-> scope, rw |-> rw, arg |-> arg, k |-> k, loc |-> loc]

NoLocals == [none |-> TRUE]

\* what a render has read and what it draws, left out when the page is not
\* observed
Drawn(v, x) == IF v = Unobserved THEN NoLocals ELSE x

GetAll(store, k, loc) == Request("getAll", {store}, FALSE, NULL, k, loc)

\* IndexedDB runs transactions with overlapping scopes in creation order
\* when one of them is readwrite; the others may complete in any order
Conflict(a, b) == a.scope \cap b.scope # {} /\ (a.rw \/ b.rw)

CanComplete(i) == \A j \in 1..(i - 1) : ~Conflict(queue[j], queue[i])

Remove(q, i) == SubSeq(q, 1, i - 1) \o SubSeq(q, i + 1, Len(q))

\* every handler in flight (and every refresh) waits for one entry of the
\* queue; the seed transaction belongs to no handler
InFlight == Cardinality({i \in DOMAIN queue : queue[i].k # "seed"})

CanStart == InFlight < MaxInFlight

\* the ids of a set of records in ascending order (getAll returns key order)
RECURSIVE SortedIds(_)
SortedIds(S) ==
    IF S = {} THEN <<>>
    ELSE LET m == CHOOSE x \in S : \A y \in S : x <= y
         IN <<m>> \o SortedIds(S \ {m})

\* a write of another handler committed while a cascading delete was in
\* flight: its entries remember that (bookkeeping for the pre/post contract)
Disturb(q, changed) ==
    [j \in DOMAIN q |->
        IF changed /\ "clean" \in DOMAIN q[j].loc
        THEN [q[j] EXCEPT !.loc.clean = FALSE]
        ELSE q[j]]

\* what a step did: the operation, the id it was about, the stores as they
\* were before the step, and the operation's own details
Event(op, id, info) == [op |-> op, id |-> id, pre |-> Snapshot, info |-> info]

-----------------------------------------------------------------------------
(* FinanceApp constructor and init *)

Pad2(n) == IF n < 10 THEN "0" \o ToString(n) ELSE ToString(n)

\* constructor: `${year}-${month}` with the month padded to two digits
ThisMonth == ToString(Now.year) \o "-" \o Pad2(Now.month)

BudgetIdInputs == {ThisMonth \o "-" \o "Alimentacion"}

\* defaults.forEach(name => categoryStore.add({ name: name }))
RECURSIVE AddAll(_, _, _)
AddAll(store, names, key) ==
    IF names = <<>> THEN store
    ELSE AddAll(StoreAdd(store, [name |-> Head(names)], key), Tail(names), key + 1)

\* the transaction inputs, the expense first
SortedInputs(inputs) ==
    LET e == CHOOSE f \in inputs : f.type = "expense"
        i == CHOOSE f \in inputs : f.type = "income"
    IN <<e, i>>

RECURSIVE AddRecords(_, _, _)
AddRecords(store, recs, key) ==
    IF recs = <<>> THEN store
    ELSE AddRecords(StoreAdd(store, Head(recs), key), Tail(recs), key + 1)

\* What the page finds on disk when it is loaded: no database (the first-ever
\* open), or the database an earlier visit left: the default categories and
\* one the user added, a transaction in each of two categories and a budget.
NoDatabase ==
    [exists |-> FALSE, cats |-> {}, txs |-> {}, buds |-> {}, catKey |-> 1, txKey |-> 1]

EarlierVisit ==
    LET n == Len(defaults)
    IN [exists |-> TRUE,
        cats |-> StoreAdd(AddAll({}, defaults, 1), [name |-> "Viajes"], n + 1),
        txs |-> AddRecords({}, SortedInputs(TxInputs), 1),
        buds |-> {[id |-> ThisMonth \o "-" \o "Alimentacion", month |-> ThisMonth,
                   category |-> "Alimentacion", limit |-> 100]},
        catKey |-> n + 2, txKey |-> 3]

OnDisk == {NoDatabase, EarlierVisit}

\* the page has been loaded and FinanceApp constructed; window.onload has
\* not run yet
Load(d, editing, shown, page) ==
    /\ dbExists = d.exists
    /\ categories = d.cats
    /\ transactions = d.txs
    /\ budgets = d.buds
    /\ catKey = d.catKey
    /\ txKey = d.txKey
    /\ connected = FALSE
    /\ openFailed = FALSE
    /\ seededNow = FALSE
    /\ catRead = FALSE
    /\ views = shown
    /\ charts = NoCharts
    /\ undestroyed = {}
    /\ document = page
    /\ currentMonth = ThisMonth
    /\ editingTxId = editing
    /\ queue = <<>>
    /\ ops = 0
    /\ last = NoEvent

Loaded(d, editing) == Load(d, editing, Unobserved, WholeDocument)

\* constructor: this.editingTxId = null
Init == \E d \in OnDisk : Loaded(d, NULL)

\* updateUI(): its first await is renderCategories' getAll('categories')
UpdateUI == GetAll("categories", "renderCategories", NoLocals)

\* onupgradeneeded: the transaction that adds the default categories, created
\* when the versionchange transaction completes
SeedRequest == Request("seed", {"categories"}, TRUE, defaults, "seed", NoLocals)

\* window.onload -> init() -> connect() on a browser that has no database:
\* onupgradeneeded creates the three stores, and when the versionchange
\* transaction completes (e.target.transaction.oncomplete) the database is
\* on disk and the seed transaction is created.  FinanceDB.db is still
\* null: the open request has not succeeded yet.
UpgradeComplete ==
    /\ ~connected
    /\ ~openFailed
    /\ ~dbExists
    /\ dbExists' = TRUE
    /\ seededNow' = TRUE
    /\ queue' = queue \o <<SeedRequest>>
    /\ last' = Event("upgrade", NULL, [created |-> TRUE])
    /\ UNCHANGED <<categories, transactions, budgets, catKey, txKey, connected,
                   openFailed, catRead, views, charts, undestroyed, document,
                   currentMonth, editingTxId, ops>>

\* (a seed that is started only after the first read)
ConnectRequestsSeedLate(pending) == <<UpdateUI>> \o pending

\* what is queued when connect() has resolved and init() has called
\* updateUI(): the first read comes after whatever the upgrade created
ConnectRequests(pending) == pending \o <<UpdateUI>>

\* request.onsuccess: this.db is set and connect() resolves, then init()
\* calls updateUI().  The success event of the open request comes after the
\* versionchange transaction's complete event when the database was created
\* by this open.
Connect ==
    /\ ~connected
    /\ ~openFailed
    /\ dbExists
    /\ connected' = TRUE
    /\ queue' = ConnectRequests(queue)
    /\ last' = Event("connect", NULL, [created |-> seededNow])
    /\ UNCHANGED <<dbExists, categories, transactions, budgets, catKey, txKey,
                   seededNow, catRead, views, charts, undestroyed, document,
                   currentMonth, editingTxId, ops, openFailed>>

\* (an init that goes on to updateUI() although the open failed)
OpenErrorProceeds == <<UpdateUI>>

\* request.onerror -> reject("Error opening DB"): `await this.db.connect()`
\* throws in init(), which ends there; nothing is requested from the store
OpenErrorRequests == <<>>

\* window.onload -> init(): the open request fails (before anything was
\* created: an upgrade that completed is followed by the success event)
ConnectError ==
    /\ ~connected
    /\ ~openFailed
    /\ ~seededNow
    /\ openFailed' = TRUE
    /\ queue' = OpenErrorRequests
    /\ last' = Event("connect.error", NULL, [created |-> FALSE])
    /\ UNCHANGED <<dbExists, categories, transactions, budgets, catKey, txKey,
                   connected, seededNow, catRead, views, charts, undestroyed, document, currentMonth, editingTxId, ops>>

\* a form is submitted (addCategory, addTransaction, saveBudget) while
\* FinanceDB.db is null: this.db.transaction(...) throws a TypeError, the
\* handler ends and nothing is requested from the store
SubmitWithoutDb ==
    /\ ~connected
    /\ ops < MaxOps
    /\ ops' = ops + 1
    /\ last' = Event("submit.error", NULL, [threw |-> TRUE])
    /\ UNCHANGED <<dbExists, categories, transactions, budgets, catKey, txKey,
                   connected, openFailed, seededNow, catRead, views, charts, undestroyed, document, currentMonth,
                   editingTxId, queue>>

\* the seed transaction completes: the seven adds are in the store.  It was
\* created in the task that precedes the open request's success event, so
\* its own complete event comes after that one.
SeedDone ==
    \E i \in DOMAIN queue :
        LET e == queue[i] IN
        /\ e.k = "seed"
        /\ connected
        /\ CanComplete(i)
        /\ categories' = AddAll(categories, e.arg, catKey)
        /\ catKey' = catKey + Len(e.arg)
        /\ queue' = Disturb(Remove(queue, i), TRUE)
        /\ last' = NoEvent
        /\ UNCHANGED <<dbExists, transactions, budgets, txKey, connected, openFailed,
                       seededNow, catRead, views, charts, undestroyed, document, currentMonth, editingTxId, ops>>

\* the page is loaded again, at any time (also while the open request is
\* pending): a new FinanceApp, the database stays on disk and the
\* transactions that had not completed are aborted, the seed among them
Reload ==
    /\ ops < MaxOps
    /\ ops' = ops + 1
    /\ connected' = FALSE
    /\ openFailed' = FALSE
    /\ seededNow' = FALSE
    /\ catRead' = FALSE
    /\ views' = IF views \in {Unobserved, NotKept} THEN views ELSE NoViews
    /\ charts' = NoCharts
    /\ undestroyed' = {}
    /\ UNCHANGED document
    /\ currentMonth' = ThisMonth
    /\ editingTxId' = NULL
    /\ queue' = <<>>
    /\ last' = NoEvent
    /\ UNCHANGED <<dbExists, categories, transactions, budgets, catKey, txKey>>

-----------------------------------------------------------------------------
(* The derived views: what renderBudgets, updateDashboard and renderCharts  *)
(* compute from the records they read.  Amounts are whole numbers; a        *)
(* percentage is kept as the exact fraction num/den.                        *)

\* getAll('transactions'): the records in key order
InKeyOrder(store) ==
    LET ids == SortedIds(Keys(store))
    IN [i \in 1..Len(ids) |-> CHOOSE r \in store : r.id = ids[i]]

\* String.prototype.startsWith
StartsWith(str, prefix) ==
    Len(str) >= Len(prefix) /\ SubSeq(str, 1, Len(prefix)) = prefix

\* The values a property of expensesByCategory, expensesByCat and history
\* can hold: a number, a string (text), a built-in function (text is its
\* name), Object.prototype itself, or undefined.
JsNumber(n) == [type |-> "number", num |-> n, text |-> ""]

JsString(str) == [type |-> "string", num |-> 0, text |-> str]

NativeFunction(name) == [type |-> "function", num |-> 0, text |-> name]

PrototypeObject == [type |-> "object", num |-> 0, text |-> "Object.prototype"]

Undefined == [type |-> "undefined", num |-> 0, text |-> ""]

\* what an object literal inherits: the properties of Object.prototype
ObjectPrototype ==
    [key \in {"__defineGetter__", "__defineSetter__", "__lookupGetter__",
              "__lookupSetter__", "hasOwnProperty", "isPrototypeOf",
              "propertyIsEnumerable", "toLocaleString", "toString", "valueOf"}
        |-> NativeFunction(key)]
    @@ ("constructor" :> NativeFunction("Object"))
    @@ ("__proto__" :> PrototypeObject)

\* const expensesByCategory = {}: no own property
EmptyObject == [key \in {} |-> Undefined]

\* obj[key]: the own property, else the inherited one, else undefined
\* (__proto__ is never an own property of these objects)
GetProperty(obj, key) ==
    IF key # "__proto__" /\ key \in DOMAIN obj THEN obj[key]
    ELSE IF key \in DOMAIN ObjectPrototype THEN ObjectPrototype[key]
    ELSE Undefined

\* obj[key] = v, v a number or a string: an own property, except that the
\* setter of __proto__ ignores a value that is not an object
SetProperty(obj, key, v) ==
    IF key = "__proto__" THEN obj ELSE (key :> v) @@ obj

\* the operand of || and of !: 0, "" and undefined are falsy
Truthy(v) ==
    IF v.type = "number" THEN v.num # 0
    ELSE IF v.type = "string" THEN v.text # ""
    ELSE v.type # "undefined"

\* the string a value is converted to when it is added to a number (a
\* built-in function gives its source text, as V8 prints it)
ToText(v) ==
    IF v.type = "number" THEN ToString(v.num)
    ELSE IF v.type = "string" THEN v.text
    ELSE IF v.type = "function"
    THEN "function " \o v.text \o "() { [native code] }"
    ELSE IF v.type = "object" THEN "[object Object]"
    ELSE "undefined"

\* v + n, n a number: the sum of two numbers, else the concatenation of
\* the two as strings
Plus(v, n) ==
    IF v.type = "number" THEN JsNumber(v.num + n)
    ELSE JsString(ToText(v) \o ToString(n))

\* obj[key] || 0
Lookup(obj, key) ==
    LET v == GetProperty(obj, key) IN IF Truthy(v) THEN v ELSE JsNumber(0)

\* budgets.filter(b => b.month === this.currentMonth)
MonthBudgets(buds, month) == {b \in buds : b.month = month}

\* renderBudgets: t.type === 'expense' && t.date.startsWith(this.currentMonth)
CountsAsExpense(t, month) == t.type = "expense" /\ StartsWith(t.date, month)

\* renderBudgets: transactions.forEach(t => { if (...) expensesByCategory[t.category]
\*     = (expensesByCategory[t.category] || 0) + t.amount })
RECURSIVE ExpensesFold(_, _, _)
ExpensesFold(txs, month, acc) ==
    IF txs = <<>> THEN acc
    ELSE LET t == Head(txs) IN
         ExpensesFold(Tail(txs), month,
             IF CountsAsExpense(t, month)
             THEN SetProperty(acc, t.category,
                              Plus(Lookup(acc, t.category), t.amount))
             ELSE acc)

ExpensesByCategory(txs, month) == ExpensesFold(InKeyOrder(txs), month, EmptyObject)

\* const percent = b.limit > 0 ? (real / b.limit) * 100 : 0
Percent(real, limit) ==
    IF limit > 0 THEN [num |-> real * 100, den |-> limit]
    ELSE [num |-> 0, den |-> 1]

\* let statusClass = 'text-success';
\* if (percent > 80) statusClass = 'text-warning';
\* if (percent > 100) statusClass = 'text-danger';
StatusClass(percent) ==
    LET s0 == "text-success"
        s1 == IF percent.num > 80 * percent.den THEN "text-warning" ELSE s0
    IN IF percent.num > 100 * percent.den THEN "text-danger" ELSE s1

\* the order of the UTF-16 code units that occur in a date, a category name
\* or the id of a budget
CodeUnits ==
    " -0123456789ABCDEFGHIJKLMNOPQRSTUVWXYZ_abcdefghijklmnopqrstuvwxyz"

CodeUnit(c) == CHOOSE i \in 1..Len(CodeUnits) : SubSeq(CodeUnits, i, i) = c

\* the comparison of Array.prototype.sort() without a comparator
RECURSIVE StringLess(_, _)
StringLess(a, b) ==
    IF a = "" THEN b # ""
    ELSE IF b = "" THEN FALSE
    ELSE LET ca == CodeUnit(SubSeq(a, 1, 1))
             cb == CodeUnit(SubSeq(b, 1, 1))
         IN IF ca # cb THEN ca < cb
            ELSE StringLess(SubSeq(a, 2, Len(a)), SubSeq(b, 2, Len(b)))

\* monthBudgets.forEach(b => { real, diff, percent, statusClass, row }),
\* real being a number
BudgetRow(b, real) ==
    LET percent == Percent(real, b.limit)
    IN [id |-> b.id, category |-> b.category, limit |-> b.limit,
        real |-> real, diff |-> b.limit - real, percent |-> percent,
        statusClass |-> StatusClass(percent)]

\* real.toFixed(2): only a number has toFixed; for any other value the call
\* throws a TypeError before the row is appended
RowThrows(b, expensesByCategory) ==
    Lookup(expensesByCategory, b.category).type # "number"

\* renderBudgets throws: the document has the table and the row of some
\* budget of the period throws
BudgetThrows(buds, txs, month, page) ==
    /\ HasElement(page, "budget-list")
    /\ \E b \in MonthBudgets(buds, month) :
           RowThrows(b, ExpensesByCategory(txs, month))

\* renderBudgets: const tbody = document.getElementById('budget-list');
\* if(!tbody) return.  Otherwise the table is emptied, then the budgets of
\* the period are taken in the order getAll returns them (by id) and a row is appended for
\* each; a row that throws ends the loop and the function
BudgetTable(buds, txs, month, page) ==
    LET expensesByCategory == ExpensesByCategory(txs, month)
        monthBudgets == MonthBudgets(buds, month)
        throwing == {b \in monthBudgets : RowThrows(b, expensesByCategory)}
        reached == {b \in monthBudgets :
                       \A t \in throwing : StringLess(b.id, t.id)}
    IN IF ~HasElement(page, "budget-list")
       THEN [rows |-> {}, threw |-> FALSE, table |-> FALSE]
       ELSE [rows |-> {BudgetRow(b, Lookup(expensesByCategory, b.category).num) :
                          b \in reached},
             threw |-> BudgetThrows(buds, txs, month, page),
             table |-> TRUE]

\* the rows of the budget table
BudgetView(buds, txs, month, page) == BudgetTable(buds, txs, month, page).rows

\* updateDashboard: txs.filter(t => t.date.startsWith(this.currentMonth))
MonthTxs(txs, month) == {t \in txs : StartsWith(t.date, month)}

\* updateDashboard: monthTxs.forEach(t => { if(t.type === 'income') income += t.amount;
\*     else { expense += t.amount; expensesByCat[t.category] = ... } })
RECURSIVE TotalsFold(_, _)
TotalsFold(txs, acc) ==
    IF txs = <<>> THEN acc
    ELSE LET t == Head(txs) IN
         TotalsFold(Tail(txs),
             IF t.type = "income"
             THEN [acc EXCEPT !.income = @ + t.amount]
             ELSE [acc EXCEPT
                     !.expense = @ + t.amount,
                     !.expensesByCat =
                         SetProperty(@, t.category,
                                     Plus(Lookup(@, t.category), t.amount))])

\* monthBudgets.reduce((acc, b) => acc + b.limit, 0)
RECURSIVE TotalLimit(_)
TotalLimit(buds) ==
    IF buds = {} THEN 0
    ELSE LET b == CHOOSE x \in buds : TRUE
         IN b.limit + TotalLimit(buds \ {b})

\* const budgetStatus = totalBudget > 0 ? (expense / totalBudget) * 100 : 0
BudgetStatus(expense, totalBudget) ==
    IF totalBudget > 0 THEN [num |-> expense * 100, den |-> totalBudget]
    ELSE [num |-> 0, den |-> 1]

\* renderCharts: allTxs.forEach(t => { const m = t.date.slice(0, 7);
\*     if (!history[m]) history[m] = 0;
\*     history[m] += (t.type === 'income' ? t.amount : -t.amount) })
RECURSIVE HistoryFold(_, _)
HistoryFold(txs, acc) ==
    IF txs = <<>> THEN acc
    ELSE LET t == Head(txs)
             m == SubSeq(t.date, 1, 7)
             d == IF t.type = "income" THEN t.amount ELSE 0 - t.amount
             started == IF ~Truthy(GetProperty(acc, m))
                        THEN SetProperty(acc, m, JsNumber(0)) ELSE acc
         IN HistoryFold(Tail(txs),
                        SetProperty(started, m, Plus(GetProperty(started, m), d)))

History(allTxs) == HistoryFold(InKeyOrder(allTxs), EmptyObject)

\* Object.keys(history).sort()
RECURSIVE SortedStrings(_)
SortedStrings(S) ==
    IF S = {} THEN <<>>
    ELSE LET m == CHOOSE x \in S : \A y \in S \ {x} : StringLess(x, y)
         IN <<m>> \o SortedStrings(S \ {m})

\* (a trend that adds the months up)
RECURSIVE TrendDataCumulative(_, _)
TrendDataCumulative(history, months) ==
    IF months = <<>> THEN <<>>
    ELSE LET n == Len(months)
             before == TrendDataCumulative(history, SubSeq(months, 1, n - 1))
         IN Append(before,
                   Plus(history[months[n]],
                        IF n = 1 THEN 0 ELSE before[n - 1].num))

\* sortedMonths.map(m => history[m])
TrendData(history, months) == [i \in 1..Len(months) |-> history[months[i]]]

\* updateDashboard and renderCharts: the KPI values (written to the page
\* when it has the KPI block) and the chart data
Dashboard(txs, buds, month) ==
    LET monthTxs == MonthTxs(txs, month)
        totals == TotalsFold(InKeyOrder(monthTxs),
                             [income |-> 0, expense |-> 0,
                              expensesByCat |-> EmptyObject])
        totalBudget == TotalLimit(MonthBudgets(buds, month))
        history == History(txs)
        sortedMonths == SortedStrings(DOMAIN history)
    IN [income |-> totals.income,
        expense |-> totals.expense,
        balance |-> totals.income - totals.expense,
        expensesByCat |-> totals.expensesByCat,
        budgetStatus |-> BudgetStatus(totals.expense, totalBudget),
        trendLabels |-> sortedMonths,
        trendData |-> TrendData(history, sortedMonths)]

-----------------------------------------------------------------------------
(* updateUI: the four renders, one store read after the other *)

\* a read step of a handler: the request completes, the stores are not
\* changed, and the handler goes on with the requests in `more`
ReadStep(i, more, ev) ==
    /\ CanComplete(i)
    /\ queue' = Remove(queue, i) \o more
    /\ last' = ev
    /\ UNCHANGED <<dbExists, categories, transactions, budgets, catKey, txKey,
                   connected, openFailed, seededNow, currentMonth, editingTxId, ops>>

RenderCategories ==
    \E i \in DOMAIN queue :
        LET e == queue[i] IN
        /\ e.k = "renderCategories"
        /\ ReadStep(i, <<GetAll("transactions", "renderTransactions", NoLocals)>>,
                    Event("renderCategories", NULL,
                          [first |-> ~catRead, result |-> categories]))
        /\ catRead' = TRUE
        /\ UNCHANGED <<views, charts, undestroyed, document>>

RenderTransactions ==
    \E i \in DOMAIN queue :
        LET e == queue[i] IN
        /\ e.k = "renderTransactions"
        /\ ReadStep(i, <<GetAll("budgets", "renderBudgets.budgets", NoLocals)>>,
                    Event("renderTransactions", NULL,
                          Drawn(views, [result |-> transactions])))
        /\ UNCHANGED <<catRead, views, charts, undestroyed, document>>

\* updateUI after renderBudgets: updateDashboard() is called when
\* renderBudgets returned; when it threw, updateUI ends there (its promise
\* is rejected and nobody handles that)
AfterBudgets(buds, txs, month, page) ==
    IF BudgetThrows(buds, txs, month, page) THEN <<>>
    ELSE <<GetAll("transactions", "updateDashboard.txs", NoLocals)>>

\* renderBudgets: budgets are read, then the transactions; the table is
\* computed when the second read arrives, with currentMonth as it is then
RenderBudgets ==
    \E i \in DOMAIN queue :
        LET e == queue[i] IN
        /\ \/ /\ e.k = "renderBudgets.budgets"
              /\ ReadStep(i, <<GetAll("transactions",
                                      "renderBudgets.transactions",
                                      [budgets |-> budgets])>>,
                          NoEvent)
              /\ UNCHANGED <<views, charts, undestroyed, document>>
           \/ /\ e.k = "renderBudgets.transactions"
              /\ views' = Shown(views, "budgets",
                                 [month |-> currentMonth, budgets |-> e.loc.budgets,
                                  transactions |-> transactions])
              /\ UNCHANGED <<charts, undestroyed, document>>
              /\ ReadStep(i, AfterBudgets(e.loc.budgets, transactions, currentMonth,
                                       document),
                          Event("renderBudgets", NULL,
                                Drawn(views,
                                      [month |-> currentMonth,
                                       budgets |-> e.loc.budgets,
                                       transactions |-> transactions,
                                       rows |-> BudgetView(e.loc.budgets,
                                                           transactions,
                                                           currentMonth,
                                                           document),
                                       table |-> BudgetTable(e.loc.budgets,
                                                             transactions,
                                                             currentMonth,
                                                             document).table,
                                       threw |-> BudgetTable(e.loc.budgets,
                                                             transactions,
                                                             currentMonth,
                                                             document).threw])))
        /\ UNCHANGED catRead

\* (a renderCharts that registers the new chart without destroying the one
\* in the slot)
DestroyNothing(registered, live, slot) == live

\* destroyChart(id): if (this.charts[id]) this.charts[id].destroy()
DestroyChart(registered, live, slot) ==
    IF registered[slot] # NULL THEN live \ {registered[slot]} ELSE live

\* new Chart(...): a handle that differs from every handle still alive (the
\* smallest number none of them has)
NewChart(live) == CHOOSE h \in 1..(Cardinality(live) + 1) : h \notin live

\* if(document.getElementById(id)) in renderCharts: the document has a
\* canvas for the slot
HasCanvas(page, slot) == HasElement(page, ChartSlots[slot])

\* renderCharts: for each slot in turn, if(document.getElementById(id)):
\* destroyChart(id); this.charts[id] = new Chart(...)
RECURSIVE RenderChartsFrom(_, _, _, _)
RenderChartsFrom(slot, registered, live, page) ==
    IF slot > Len(ChartSlots) THEN [charts |-> registered, undestroyed |-> live]
    ELSE IF ~HasCanvas(page, slot)
    THEN RenderChartsFrom(slot + 1, registered, live, page)
    ELSE LET released == DestroyChart(registered, live, slot)
             handle == NewChart(released)
         IN RenderChartsFrom(slot + 1, [registered EXCEPT ![slot] = handle],
                             released \cup {handle}, page)

RenderCharts(registered, live, page) == RenderChartsFrom(1, registered, live, page)

\* updateDashboard: the transactions are read, then the budgets; the KPIs
\* and the charts are computed when the second read arrives
UpdateDashboard ==
    \E i \in DOMAIN queue :
        LET e == queue[i] IN
        /\ \/ /\ e.k = "updateDashboard.txs"
              /\ ReadStep(i, <<GetAll("budgets",
                                      "updateDashboard.budgets",
                                      Drawn(views, [txs |-> transactions]))>>,
                          NoEvent)
              /\ UNCHANGED <<views, charts, undestroyed, document>>
           \/ /\ e.k = "updateDashboard.budgets"
              /\ views' = Shown(views, "dashboard",
                                 [month |-> currentMonth, transactions |-> e.loc.txs,
                                  budgets |-> budgets])
              /\ charts' = RenderCharts(charts, undestroyed, document).charts
              /\ undestroyed' = RenderCharts(charts, undestroyed, document).undestroyed
              /\ UNCHANGED document
              /\ ReadStep(i, <<>>,
                          Event("updateDashboard", NULL,
                                Drawn(views,
                                      [month |-> currentMonth,
                                       transactions |-> e.loc.txs,
                                       budgets |-> budgets,
                                       kpis |-> HasElement(document,
                                                           "kpi-income"),
                                       view |-> Dashboard(e.loc.txs, budgets,
                                                          currentMonth)])
                                @@ [replaced |-> {s \in DOMAIN charts :
                                                     charts[s] # NULL}]))
        /\ UNCHANGED catRead

-----------------------------------------------------------------------------
(* Handlers.  A user event needs the connection (before connect() resolves  *)
(* FinanceDB.db is null and every handler throws on its first store call)   *)
(* and counts against MaxOps.                                               *)

UserEvent ==
    /\ connected
    /\ ops < MaxOps
    /\ ops' = ops + 1

\* a step of a handler that creates store transactions and changes no store
\* (when the step has no result of its own, the record of the step holds the
\* transactions it created)
Issue(more, ev) ==
    /\ queue' = queue \o more
    /\ last' = IF ev = NoEvent THEN [op |-> "issue", issued |-> more] ELSE ev
    /\ UNCHANGED <<dbExists, categories, transactions, budgets, catKey, txKey,
                   connected, openFailed, seededNow, catRead, views, charts, undestroyed, document>>

\* (a delete that does not look at the answer)
ConfirmIgnored(ok, requests) == requests

\* if(!confirm(...)) return / if(confirm(...)) { ... }: what a delete handler
\* creates, given the answer
Confirmed(ok, requests) == IF ok THEN requests ELSE <<>>

\* a delete handler's first step: nothing is created without a confirmation
\* (the record of a declined delete holds what the page was like before it)
ConfirmStep(op, id, ok, requests) ==
    LET issued == Confirmed(ok, requests) IN
    /\ issued # <<>> => CanStart
    /\ Issue(issued,
             IF ok THEN NoEvent
             ELSE Event(op, id, [confirmed |-> FALSE, month |-> currentMonth,
                                 editing |-> editingTxId, queue |-> queue]))

\* (an addCategory without the test on the name)
AddCategoryUnchecked(name) ==
    <<Request("add", {"categories"}, TRUE, [name |-> name], "addCategory",
              NoLocals)>>

\* if(name) await this.db.add('categories', { name }): the store transaction
\* that addCategory creates
AddCategoryRequests(name) ==
    IF name # ""
    THEN <<Request("add", {"categories"}, TRUE, [name |-> name], "addCategory",
                   NoLocals)>>
    ELSE <<>>

\* addCategory(e): if(name) await db.add('categories', { name })
AddCategory(name) ==
    LET issued == AddCategoryRequests(name) IN
    /\ UserEvent
    /\ issued # <<>> => CanStart
    /\ Issue(issued,
             IF name # "" THEN NoEvent
             ELSE Event("addCategory", NULL,
                        [name |-> name, added |-> FALSE, issued |-> issued,
                         queue |-> queue]))
    /\ UNCHANGED <<currentMonth, editingTxId>>

\* ... the add committed: nameInput cleared, updateUI(), alert
AddCategoryDone ==
    \E i \in DOMAIN queue :
        LET e == queue[i] IN
        /\ e.k = "addCategory"
        /\ CanComplete(i)
        /\ categories' = StoreAdd(categories, e.arg, catKey)
        /\ catKey' = catKey + 1
        /\ queue' = Disturb(Remove(queue, i), TRUE) \o <<UpdateUI>>
        /\ last' = Event("addCategory", catKey, [name |-> e.arg.name, added |-> TRUE])
        /\ UNCHANGED <<dbExists, transactions, budgets, txKey, connected, openFailed,
                       seededNow, catRead, views, charts, undestroyed, document, currentMonth, editingTxId, ops>>

\* editCategory(id): const categories = await db.getAll('categories')
EditCategory(id) ==
    /\ UserEvent
    /\ CanStart
    /\ Issue(<<GetAll("categories", "editCategory", [id |-> id, clean |-> TRUE])>>,
             NoEvent)
    /\ UNCHANGED <<currentMonth, editingTxId>>

\* (a test that forgets to compare with the current name)
NameGiven(newName, cat) == newName.ok /\ newName.value # ""

\* newName && newName !== cat.name
NameChanged(newName, cat) == newName.ok /\ newName.value # "" /\ newName.value # cat.name

\* (a rename that uses one transaction per store)
RenameRequestsPerStore(e, cat, newName) ==
    <<Request("rename", {"categories"}, TRUE,
              [id |-> e.loc.id, old |-> cat.name, new |-> newName],
              "editCategory.tx", e.loc),
      Request("rename", {"transactions"}, TRUE,
              [id |-> e.loc.id, old |-> cat.name, new |-> newName],
              "editCategory.tx", e.loc)>>

\* the store transactions the rename opens: one, readwrite, over
\* ['categories', 'transactions']; it puts the category and rewrites the
\* transactions
RenameRequests(e, cat, newName) ==
    <<Request("rename", {"categories", "transactions"}, TRUE,
              [id |-> e.loc.id, old |-> cat.name, new |-> newName],
              "editCategory.tx", e.loc)>>

\* what the prompt step of editCategory creates
EditCategoryIssues(e, cat, newName) ==
    IF NameChanged(newName, cat) THEN RenameRequests(e, cat, newName.value) ELSE <<>>

\* ... the categories arrived: find the record, prompt for the new name and,
\* if it changed, open the transaction that renames
EditCategoryPrompt ==
    \E i \in DOMAIN queue :
        LET e == queue[i]
            found == Find(categories, e.loc.id)
        IN
        /\ e.k = "editCategory"
        /\ IF found = {}
           THEN ReadStep(i, <<>>,
                    Event("editCategory", e.loc.id,
                          [found |-> FALSE, first |-> ~catRead,
                           result |-> categories, issued |-> <<>>]))
           ELSE \E newName \in PromptInputs :
                    LET cat == CHOOSE c \in found : TRUE
                        more == EditCategoryIssues(e, cat, newName)
                    IN
                    ReadStep(i, more,
                        Event("editCategory", e.loc.id,
                              [found |-> TRUE, first |-> ~catRead,
                               result |-> categories, issued |-> more,
                               old |-> cat.name, answer |-> newName]))
        /\ catRead' = TRUE
        /\ UNCHANGED <<views, charts, undestroyed, document>>

\* (a rename without the test on the old name)
RenameEveryTransaction(txs, old, new) == {[t EXCEPT !.category = new] : t \in txs}

\* transactions.forEach(t => { if (t.category === cat.name) { t.category = newName; put(t) } })
RenameTransactions(txs, old, new) ==
    {IF t.category = old THEN [t EXCEPT !.category = new] ELSE t : t \in txs}

\* ... the rename transaction committed: the category put and every
\* transaction put at once; then alert and updateUI()
EditCategoryDone ==
    \E i \in DOMAIN queue :
        LET e == queue[i] IN
        /\ e.k = "editCategory.tx"
        /\ CanComplete(i)
        /\ categories' =
              IF "categories" \in e.scope
              THEN StorePut(categories, [id |-> e.arg.id, name |-> e.arg.new])
              ELSE categories
        /\ catKey' = IF "categories" \in e.scope /\ e.arg.id >= catKey
                     THEN e.arg.id + 1 ELSE catKey
        /\ transactions' =
              IF "transactions" \in e.scope
              THEN RenameTransactions(transactions, e.arg.old, e.arg.new)
              ELSE transactions
        /\ queue' = Disturb(Remove(queue, i), TRUE) \o <<UpdateUI>>
        /\ last' = Event("editCategory.done", e.arg.id,
                         [old |-> e.arg.old, new |-> e.arg.new,
                          scope |-> e.scope, clean |-> e.loc.clean])
        /\ UNCHANGED <<dbExists, budgets, txKey, connected, openFailed, seededNow, catRead, views, charts, undestroyed, document,
                       currentMonth, editingTxId, ops>>

\* each call of deleteCategory has its own locals: a number that no call
\* still in flight has tells them apart
NewCall ==
    LET calls == {queue[j].loc.call :
                     j \in {i \in DOMAIN queue : "call" \in DOMAIN queue[i].loc}}
    IN IF calls = {} THEN 1
       ELSE (CHOOSE c \in calls : \A d \in calls : d <= c) + 1

\* deleteCategory(id): if(!confirm(...)) return; categories = await getAll
DeleteCategory(id, ok) ==
    /\ UserEvent
    /\ ConfirmStep("deleteCategory", id, ok,
                   <<GetAll("categories", "deleteCategory",
                            [id |-> id, pre0 |-> Snapshot, clean |-> TRUE,
                             call |-> NewCall])>>)
    /\ UNCHANGED <<currentMonth, editingTxId>>

\* ... the categories arrived: if the category is there, read the transactions
DeleteCategoryFind ==
    \E i \in DOMAIN queue :
        LET e == queue[i]
            found == Find(categories, e.loc.id)
        IN
        /\ e.k = "deleteCategory"
        /\ IF found = {}
           THEN ReadStep(i, <<>>,
                    Event("deleteCategory", e.loc.id,
                          [confirmed |-> TRUE, found |-> FALSE,
                           first |-> ~catRead, result |-> categories,
                           issued |-> <<>>, call |-> e.loc.call]))
           ELSE LET categoryToDelete == CHOOSE c \in found : TRUE IN
                ReadStep(i,
                    <<GetAll("transactions", "deleteCategory.scan",
                             e.loc @@ [name |-> categoryToDelete.name])>>,
                    Event("deleteCategory.find", e.loc.id,
                          [first |-> ~catRead, result |-> categories]))
        /\ catRead' = TRUE
        /\ UNCHANGED <<views, charts, undestroyed, document>>

\* (a cascade without the filter)
TxsToDeleteUnfiltered(txs, name) == txs

\* transactions.filter(t => t.category === categoryToDelete.name)
TxsToDelete(txs, name) == {t \in txs : t.category = name}

\* db.delete('categories', id), awaited after Promise.all(deletePromises)
DeleteCategoryRow(e) ==
    Request("delete", {"categories"}, TRUE, e.loc.id, "deleteCategory.row", e.loc)

\* txsToDelete.map(t => db.delete('transactions', t.id)): one readwrite
\* transaction per id, all created at once and in array order; arg holds the
\* ids whose transaction has not completed yet
DeletePromises(e, ids) ==
    Request("delete", {"transactions"}, TRUE, ids, "deleteCategory.tx", e.loc)

\* (a cascade that does not await Promise.all: the category delete is
\* created together with the transaction deletes)
CascadeNotAwaited(e, ids) ==
    IF ids = <<>> THEN <<DeleteCategoryRow(e)>>
    ELSE <<DeletePromises(e, ids), DeleteCategoryRow(e)>>

\* const deletePromises = txsToDelete.map(...); await Promise.all(deletePromises);
\* await this.db.delete('categories', id): what the handler creates when the
\* transactions have arrived
Cascade(e, ids) ==
    IF ids = <<>> THEN <<DeleteCategoryRow(e)>> ELSE <<DeletePromises(e, ids)>>

\* ... the transactions arrived: one delete per matching transaction; with
\* none, Promise.all([]) resolves at once and the category delete is issued
DeleteCategoryScan ==
    \E i \in DOMAIN queue :
        LET e == queue[i]
            txsToDelete == TxsToDelete(transactions, e.loc.name)
            loc == e.loc @@ [count |-> Cardinality(txsToDelete),
                             ids |-> Keys(txsToDelete), removed |-> 0]
            f == [e EXCEPT !.loc = loc]
        IN
        /\ e.k = "deleteCategory.scan"
        /\ ReadStep(i, Cascade(f, SortedIds(Keys(txsToDelete))), NoEvent)
        /\ UNCHANGED <<catRead, views, charts, undestroyed, document>>

\* ... one cascaded delete committed; when it was the last one pending,
\* Promise.all resolves and the category delete is issued
DeleteCategoryTx ==
    \E i \in DOMAIN queue :
        LET e == queue[i]
            settled == Len(e.arg) = 1
            changed == Head(e.arg) \in Keys(transactions)
            others == Disturb(queue, changed)
            \* the records this call's deletes have taken out of the store
            f == [e EXCEPT !.loc.removed = IF changed THEN @ + 1 ELSE @]
        IN
        /\ e.k = "deleteCategory.tx"
        /\ CanComplete(i)
        /\ transactions' = StoreDelete(transactions, Head(e.arg))
        /\ queue' = IF settled
                     THEN Remove(others, i) \o <<DeleteCategoryRow(f)>>
                     ELSE [others EXCEPT ![i] = [f EXCEPT !.arg = Tail(e.arg)]]
        /\ last' = NoEvent
        /\ UNCHANGED <<dbExists, categories, budgets, catKey, txKey, connected, openFailed,
                       seededNow, catRead, views, charts, undestroyed, document, currentMonth, editingTxId, ops>>

\* ... the category delete committed: alert with txsToDelete.length, updateUI()
DeleteCategoryDone ==
    \E i \in DOMAIN queue :
        LET e == queue[i] IN
        /\ e.k = "deleteCategory.row"
        /\ CanComplete(i)
        /\ categories' = StoreDelete(categories, e.arg)
        /\ queue' = Disturb(Remove(queue, i), categories' # categories)
                        \o <<UpdateUI>>
        /\ last' = Event("deleteCategory", e.arg,
                         [confirmed |-> TRUE, found |-> TRUE, name |-> e.loc.name,
                          count |-> e.loc.count, pre0 |-> e.loc.pre0,
                          clean |-> e.loc.clean, call |-> e.loc.call,
                          ids |-> e.loc.ids, removed |-> e.loc.removed])
        /\ UNCHANGED <<dbExists, transactions, budgets, catKey, txKey, connected, openFailed,
                       seededNow, catRead, views, charts, undestroyed, document, currentMonth, editingTxId, ops>>

-----------------------------------------------------------------------------
(* Transactions *)

\* the edit button of a row calls this.editTransaction(tx.id); FinanceApp
\* defines no such method, so the call throws a TypeError and nothing else
\* happens: editingTxId keeps its value
EditTransactionClick(id) ==
    /\ UserEvent
    /\ Issue(<<>>, Event("editTransaction", id, [threw |-> TRUE]))
    /\ UNCHANGED <<currentMonth, editingTxId>>

\* store.put({ id: this.editingTxId, type, amount, date, category, desc })
EditedRecord(id, fields) == fields @@ [id |-> id]

\* addTransaction(e): in edit mode put the record under editingTxId,
\* otherwise await db.add('transactions', {...})
\* (click: the submit directly follows a press of that row's edit button)
AddTransactionRequest(editing, fields, click) ==
    IF editing # NULL
    THEN Request("put", {"transactions"}, TRUE, EditedRecord(editing, fields),
                 "addTransaction",
                 [click |-> click, editing |-> editing, fields |-> fields])
    ELSE Request("add", {"transactions"}, TRUE, fields,
                 "addTransaction",
                 [click |-> click, editing |-> editing, fields |-> fields])

AddTransaction(fields) ==
    /\ UserEvent
    /\ CanStart
    /\ Issue(<<AddTransactionRequest(editingTxId, fields,
                    IF last.op = "editTransaction" THEN last.id ELSE NULL)>>,
             NoEvent)
        /\ UNCHANGED <<currentMonth, editingTxId>>

\* ... the write committed.  Edit mode: editingTxId = null, form reset,
\* updateUI().  Create mode: form reset, updateUI().
AddTransactionDone ==
    \E i \in DOMAIN queue :
        LET e == queue[i] IN
        /\ e.k = "addTransaction"
        /\ CanComplete(i)
        /\ IF e.op = "put"
           THEN /\ transactions' = StorePut(transactions, e.arg)
                /\ txKey' = IF e.arg.id >= txKey THEN e.arg.id + 1 ELSE txKey
                /\ editingTxId' = NULL
                /\ last' = Event("addTransaction", e.arg.id, e.loc)
           ELSE /\ transactions' = StoreAdd(transactions, e.arg, txKey)
                /\ txKey' = txKey + 1
                /\ UNCHANGED editingTxId
                /\ last' = Event("addTransaction", txKey, e.loc)
        /\ queue' = Disturb(Remove(queue, i), TRUE) \o <<UpdateUI>>
        /\ UNCHANGED <<dbExists, categories, budgets, catKey, connected, openFailed,
                       seededNow, catRead, views, charts, undestroyed, document, currentMonth, ops>>

\* deleteTransaction(id): if(confirm(...)) { await db.delete(...); updateUI() }
DeleteTransaction(id, ok) ==
    /\ UserEvent
    /\ ConfirmStep("deleteTransaction", id, ok,
                   <<Request("delete", {"transactions"}, TRUE, id,
                             "deleteTransaction", NoLocals)>>)
    /\ UNCHANGED <<currentMonth, editingTxId>>

\* ... the delete committed (tx.oncomplete -> resolve): updateUI()
DeleteTransactionDone ==
    \E i \in DOMAIN queue :
        LET e == queue[i]
            more == IF DeleteResolves(transactions, e.arg) THEN <<UpdateUI>> ELSE <<>>
        IN
        /\ e.k = "deleteTransaction"
        /\ CanComplete(i)
        /\ transactions' = StoreDelete(transactions, e.arg)
        /\ queue' = Disturb(Remove(queue, i), transactions' # transactions) \o more
        /\ last' = Event("deleteTransaction", e.arg,
                         [confirmed |-> TRUE, issued |-> more])
        /\ UNCHANGED <<dbExists, categories, budgets, catKey, txKey, connected, openFailed,
                       seededNow, catRead, views, charts, undestroyed, document, currentMonth, editingTxId, ops>>

-----------------------------------------------------------------------------
(* Budgets and the period *)

\* (an id that leaves the month out)
BudgetIdWithoutMonth(month, category) == category

\* const id = `${this.currentMonth}-${category}`
BudgetId(month, category) == month \o "-" \o category

\* put({ id, month: this.currentMonth, category, limit: amount })
BudgetRecord(month, category, amount) ==
    [id |-> BudgetId(month, category), month |-> month, category |-> category,
     limit |-> amount]

\* (a saveBudget that calls updateUI() right after the put, without waiting
\* for tx.oncomplete)
SaveBudgetEager(category, amount) ==
    /\ UserEvent
    /\ CanStart
    /\ Issue(<<Request("put", {"budgets"}, TRUE,
                       BudgetRecord(currentMonth, category, amount),
                       "saveBudget", NoLocals),
               UpdateUI>>,
             NoEvent)
    /\ UNCHANGED <<currentMonth, editingTxId>>

\* saveBudget(e): the put is issued at once, in its own transaction
SaveBudget(category, amount) ==
    /\ UserEvent
    /\ CanStart
    /\ Issue(<<Request("put", {"budgets"}, TRUE,
                       BudgetRecord(currentMonth, category, amount),
                       "saveBudget", NoLocals)>>,
             NoEvent)
    /\ UNCHANGED <<currentMonth, editingTxId>>

\* ... tx.oncomplete: alert, updateUI()
SaveBudgetDone ==
    \E i \in DOMAIN queue :
        LET e == queue[i] IN
        /\ e.k = "saveBudget"
        /\ CanComplete(i)
        /\ budgets' = StorePut(budgets, e.arg)
        /\ queue' = Remove(queue, i) \o <<UpdateUI>>
        /\ last' = Event("saveBudget", e.arg.id,
                         [month |-> e.arg.month, category |-> e.arg.category,
                          limit |-> e.arg.limit])
        /\ UNCHANGED <<dbExists, categories, transactions, catKey, txKey,
                       connected, openFailed, seededNow, catRead, views, charts, undestroyed, document, currentMonth,
                       editingTxId, ops>>

\* deleteBudget(id): if(confirm(...)) { await db.delete('budgets', id); updateUI() }
DeleteBudget(id, ok) ==
    /\ UserEvent
    /\ ConfirmStep("deleteBudget", id, ok,
                   <<Request("delete", {"budgets"}, TRUE, id,
                             "deleteBudget", NoLocals)>>)
    /\ UNCHANGED <<currentMonth, editingTxId>>

DeleteBudgetDone ==
    \E i \in DOMAIN queue :
        LET e == queue[i] IN
        /\ e.k = "deleteBudget"
        /\ CanComplete(i)
        /\ budgets' = StoreDelete(budgets, e.arg)
        /\ queue' = Remove(queue, i) \o <<UpdateUI>>
        /\ last' = Event("deleteBudget", e.arg, [confirmed |-> TRUE])
        /\ UNCHANGED <<dbExists, categories, transactions, catKey, txKey,
                       connected, openFailed, seededNow, catRead, views, charts, undestroyed, document, currentMonth,
                       editingTxId, ops>>

\* handleDateChange: this.updateUI()
UpdateAfterDateChange == <<UpdateUI>>

\* handleDateChange(value): this.currentMonth = value; this.updateUI().
\* init() adds the listener that calls it when the document has the period
\* selector: if(dateInput) dateInput.addEventListener('change', ...)
HandleDateChange(value) ==
    /\ UserEvent
    /\ HasElement(document, "global-month")
    /\ CanStart
    /\ currentMonth' = value
    /\ Issue(UpdateAfterDateChange,
             Event("handleDateChange", NULL,
                   [value |-> value, issued |-> UpdateAfterDateChange]))
    /\ UNCHANGED editingTxId

-----------------------------------------------------------------------------

Next ==
    \/ UpgradeComplete
    \/ Connect
    \/ ConnectError
    \/ SubmitWithoutDb
    \/ SeedDone
    \/ Reload
    \/ RenderCategories
    \/ RenderTransactions
    \/ RenderBudgets
    \/ UpdateDashboard
    \/ \E name \in NewCategoryInputs : AddCategory(name)
    \/ AddCategoryDone
    \/ \E id \in CatIdInputs : EditCategory(id)
    \/ EditCategoryPrompt
    \/ EditCategoryDone
    \/ \E id \in CatIdInputs, ok \in ConfirmInputs : DeleteCategory(id, ok)
    \/ DeleteCategoryFind
    \/ DeleteCategoryScan
    \/ DeleteCategoryTx
    \/ DeleteCategoryDone
    \/ \E id \in TxIdInputs : EditTransactionClick(id)
    \/ AddTransactionDone
    \/ \E id \in TxIdInputs, ok \in ConfirmInputs : DeleteTransaction(id, ok)
    \/ DeleteTransactionDone
    \/ SaveBudgetDone
    \/ \E id \in BudgetIdInputs, ok \in ConfirmInputs : DeleteBudget(id, ok)
    \/ DeleteBudgetDone
    \/ \E v \in MonthInputs : HandleDateChange(v)
    \/ \E f \in NewTxInputs : AddTransaction(f)
    \/ \E b \in BudgetInputs : SaveBudget(b.category, b.amount)

Spec == Init /\ [][Next]_vars

\* the same page, the content of its budget table and dashboard recorded
InitObserved == \E d \in OnDisk : Load(d, NULL, NoViews, WholeDocument)

SpecObserved == InitObserved /\ [][Next]_vars

\* The views taken by themselves: the stores hold any of the records below,
\* left there by earlier visits (submitted transactions, some deleted since;
\* budgets saved under several periods), and the page only reads them: it
\* is opened, refreshes, and the period selector is changed.
TxUniverse ==
    { [id |-> 1, type |-> "expense", amount |-> 80, date |-> "2024-03-05",
       category |-> "Alimentacion", desc |-> "mercado"],
      [id |-> 2, type |-> "expense", amount |-> 20, date |-> "2024-03-10",
       category |-> "Alimentacion", desc |-> "pan"],
      [id |-> 3, type |-> "expense", amount |-> 25, date |-> "2024-03-20",
       category |-> "Alimentacion", desc |-> ""],
      [id |-> 4, type |-> "income", amount |-> 100, date |-> "2024-01-15",
       category |-> "Otros", desc |-> "venta"],
      [id |-> 5, type |-> "expense", amount |-> 50, date |-> "2024-02-10",
       category |-> "Transporte", desc |-> "bus"],
      [id |-> 6, type |-> "income", amount |-> 110, date |-> "2024-03-25",
       category |-> "Alimentacion", desc |-> "reembolso"],
      [id |-> 7, type |-> "expense", amount |-> 40, date |-> "2024-03-12",
       category |-> "Transporte", desc |-> "taxi"] }

BudgetUniverse ==
    { BudgetRecord("2024-03", "Alimentacion", 100),
      BudgetRecord("2024-03", "Transporte", 0),
      BudgetRecord("2024-03", "Ocio", 60),
      BudgetRecord("2024-02", "Transporte", 50),
      BudgetRecord("2024-04", "Alimentacion", 50) }

\* a category the user has named like a property of Object.prototype, an
\* expense in it and a budget for it
OddName == "constructor"

OddCategory == [id |-> EarlierVisit.catKey, name |-> OddName]

OddTx == [id |-> Cardinality(TxUniverse) + 1, type |-> "expense", amount |-> 50,
          date |-> "2024-03-15", category |-> OddName, desc |-> ""]

OddBudget == BudgetRecord("2024-03", OddName, 40)

\* any of the transactions above, or the one of the odd category
TxSets == (SUBSET TxUniverse) \cup {{OddTx}}

\* no budget at all, only a budget of limit 0 in the period, all of them, or
\* a budget of the odd category after another one
BudgetSets ==
    {{}, {BudgetRecord("2024-03", "Transporte", 0)}, BudgetUniverse,
     {BudgetRecord("2024-03", "Alimentacion", 100), OddBudget}}

ViewMonthInputs == {"2024-02", "2024-04"}

InitViews ==
    \E txs \in TxSets, buds \in BudgetSets :
        Load([exists |-> TRUE, cats |-> EarlierVisit.cats \cup {OddCategory},
                txs |-> txs, buds |-> buds, catKey |-> EarlierVisit.catKey + 1,
                txKey |-> Cardinality(TxUniverse) + 2],
             NULL, NotKept, WholeDocument)

NextViews ==
    \/ Connect
    \/ RenderCategories
    \/ RenderTransactions
    \/ RenderBudgets
    \/ UpdateDashboard
    \/ \E v \in ViewMonthInputs : HandleDateChange(v)

SpecViews == InitViews /\ [][NextViews]_vars

\* The document taken by itself: it has any of the elements FinanceApp
\* looks up (a page without the dashboard has no canvas), the store is the
\* one of an earlier visit, with or without a budget of the odd category.
PageInputs == SUBSET WholeDocument

InitCharts ==
    \E page \in PageInputs, odd \in SUBSET {OddBudget} :
        Load([EarlierVisit EXCEPT !.buds = @ \cup odd], NULL, NotKept, page)

SpecCharts == InitCharts /\ [][NextViews]_vars

-----------------------------------------------------------------------------
(* Properties *)

\* C1: a confirmed deleteCategory(C.id) that ran to completion, no other
\* handler's write having committed since it was called, leaves the
\* transactions without exactly the N records whose category equalled C.name
\* (every other one kept) and the categories without exactly C (for N = 0:
\* no transaction and one category removed).
C1_DeleteCategoryCascade ==
    (/\ last.op = "deleteCategory"
     /\ last.info.confirmed
     /\ last.info.found
     /\ last.info.clean)
    => LET before == last.info.pre0
           C == CHOOSE c \in before.cats : c.id = last.id
           matching == {t \in before.txs : t.category = C.name}
       IN /\ Find(before.cats, last.id) # {}
          /\ transactions = before.txs \ matching
          /\ Cardinality(transactions) = Cardinality(before.txs) - Cardinality(matching)
          /\ categories = before.cats \ {C}
          /\ Cardinality(categories) = Cardinality(before.cats) - 1

\* a cascade that removed a transaction and kept another one
C1_Witness ==
    /\ last.op = "deleteCategory"
    /\ last.info.confirmed
    /\ last.info.found
    /\ last.info.clean
    /\ \E t \in last.info.pre0.txs : t.category = last.info.name
    /\ transactions # {}

\* C2: when the rename transaction of editCategory(id) has committed (no
\* other handler's write having committed since the call), the category row
\* with that id carries the new name, no category row was added or removed,
\* every transaction that carried the old name carries the new one, every
\* other transaction is unchanged and the number of transactions is the same.
C2_RenameCascade ==
    (last.op = "editCategory.done" /\ last.info.clean)
    => LET before == last.pre
           old == last.info.old
           new == last.info.new
       IN /\ new # old
          /\ Find(categories, last.id) = {[id |-> last.id, name |-> new]}
          /\ Keys(categories) = Keys(before.cats)
          /\ \A c \in before.cats : c.id # last.id => c \in categories
          /\ \A t \in before.txs :
                IF t.category = old
                THEN [t EXCEPT !.category = new] \in transactions
                ELSE t \in transactions
          /\ Keys(transactions) = Keys(before.txs)
          /\ Cardinality(transactions) = Cardinality(before.txs)

\* a rename that rewrote a transaction and left another one alone
C2_Witness ==
    /\ last.op = "editCategory.done"
    /\ last.info.clean
    /\ \E t \in last.pre.txs : t.category = last.info.old
    /\ \E t \in last.pre.txs : t.category \notin {last.info.old, last.info.new}

\* C3: the rename is one store transaction over both stores: whatever else
\* is in flight, the step that gives the category row its new name leaves no
\* transaction with the old name, so no store state has the one without the
\* other.
C3_RenameAtomic ==
    /\ \A i \in DOMAIN queue :
          queue[i].k = "editCategory.tx"
              => queue[i].scope = {"categories", "transactions"}
    /\ last.op = "editCategory.done"
          => /\ [id |-> last.id, name |-> last.info.new] \in categories
             /\ \A t \in transactions : t.category # last.info.old

\* a rename that committed, with a transaction to rewrite, while another
\* handler was in flight
C3_Witness ==
    /\ last.op = "editCategory.done"
    /\ \E t \in last.pre.txs : t.category = last.info.old
    /\ InFlight >= 2

\* C4: editCategory answered with the current name, with an empty name or
\* with a cancelled prompt creates no store transaction (no write, no
\* cascade, no refresh) and leaves the three stores as they were.
C4_RenameSameNameNoop ==
    (/\ last.op = "editCategory"
     /\ last.info.found
     /\ \/ ~last.info.answer.ok
        \/ last.info.answer.value = ""
        \/ last.info.answer.value = last.info.old)
    => /\ last.info.issued = <<>>
       /\ Snapshot = last.pre

\* the prompt answered with the name the category has
C4_Witness ==
    /\ last.op = "editCategory"
    /\ last.info.found
    /\ last.info.answer.ok
    /\ last.info.answer.value = last.info.old
    /\ \E c \in categories : c.id = last.id /\ c.name = last.info.old

\* C5: the budgets hold at most one record per (month, category), the id of
\* each is month-category, and when a saveBudget has committed there is
\* exactly one record for its month and category, with the limit it saved.
C5_BudgetUpsert ==
    /\ \A b \in budgets : b.id = b.month \o "-" \o b.category
    /\ \A b1, b2 \in budgets :
          (b1.month = b2.month /\ b1.category = b2.category) => b1 = b2
    /\ last.op = "saveBudget"
          => \E b \in budgets :
                /\ b.limit = last.info.limit
                /\ {x \in budgets : x.month = last.info.month
                                    /\ x.category = last.info.category} = {b}

\* a second save for the same month and category, with another limit
C5_Witness ==
    /\ last.op = "saveBudget"
    /\ \E b \in last.pre.buds :
          /\ b.month = last.info.month
          /\ b.category = last.info.category
          /\ b.limit # last.info.limit

\* C6: referential integrity by name (stated as claimed; the code violates
\* it): a rename, a delete of a category, an added category, or a submitted
\* transaction or budget whose category is the name of a stored category,
\* that starts from stores in which every transaction's and every budget's
\* category is the name of a stored category, leaves the stores so when it
\* has completed.
C6_ReferentialIntegrity ==
    LET Names(s) == {c.name : c \in s.cats}
        Integral(s) == /\ \A t \in s.txs : t.category \in Names(s)
                       /\ \A b \in s.buds : b.category \in Names(s)
    IN /\ (last.op = "editCategory.done" /\ Integral(last.pre))
             => Integral(Snapshot)
       /\ (/\ last.op = "deleteCategory"
           /\ last.info.confirmed
           /\ last.info.found
           /\ last.info.clean
           /\ Integral(last.info.pre0))
             => Integral(Snapshot)
       /\ (last.op = "addCategory" /\ Integral(last.pre)) => Integral(Snapshot)
       /\ (/\ last.op = "addTransaction"
           /\ Integral(last.pre)
           /\ last.info.fields.category \in Names(last.pre))
             => Integral(Snapshot)
       /\ (/\ last.op = "saveBudget"
           /\ Integral(last.pre)
           /\ last.info.category \in Names(last.pre))
             => Integral(Snapshot)

\* C7: the edit round trip (stated as claimed; the code violates it): a
\* submit that directly follows a press of the edit button of a stored
\* transaction leaves exactly one record for that id, with the submitted
\* field values, and adds no record.
C7_AddEditReadRoundTrip ==
    (/\ last.op = "addTransaction"
     /\ last.info.click # NULL
     /\ last.info.click \in Keys(last.pre.txs))
    => LET k == last.info.click
           f == last.info.fields
       IN /\ Find(transactions, k) =
                 {[id |-> k, type |-> f.type, amount |-> f.amount,
                   date |-> f.date, category |-> f.category, desc |-> f.desc]}
          /\ Keys(transactions) = Keys(last.pre.txs)
          /\ Cardinality(transactions) = Cardinality(last.pre.txs)

C9_DeleteMissingTransaction ==
    (/\ last.op = "deleteTransaction"
     /\ last.info.confirmed
     /\ last.id \notin Keys(last.pre.txs))
    => /\ Snapshot = last.pre
       /\ last.info.issued = <<UpdateUI>>

\* the delete of an id that is not among the stored transactions
C9_Witness ==
    /\ last.op = "deleteTransaction"
    /\ last.info.confirmed
    /\ last.id \notin Keys(last.pre.txs)
    /\ last.pre.txs # {}

\* C10: after an open that created the database, the first read of the
\* categories (whichever handler makes it) returns exactly seven records
\* with the seven default names; an open of an existing database queues no
\* seed and leaves the categories as they were, and a seed is only ever
\* pending after an open that created the database.
C10_SeedOnFirstOpen ==
    /\ LET firstRead ==
               \/ /\ last.op \in {"renderCategories", "editCategory",
                                  "deleteCategory.find"}
                  /\ last.info.first
               \/ /\ last.op = "deleteCategory"
                  /\ last.info.confirmed
                  /\ ~last.info.found
                  /\ last.info.first
       IN (seededNow /\ firstRead)
          => /\ Cardinality(last.info.result) = 7
             /\ {c.name : c \in last.info.result} =
                   {"Alimentacion", "Transporte", "Ocio", "Servicios",
                    "Salud", "Educacion", "Otros"}
    /\ (last.op = "connect" /\ ~last.info.created)
          => /\ \A i \in DOMAIN queue : queue[i].op # "seed"
             /\ categories = last.pre.cats
    /\ (\E i \in DOMAIN queue : queue[i].op = "seed") => seededNow

\* the first read of the categories after the open that created the database
C10_Witness ==
    /\ seededNow
    /\ last.op = "renderCategories"
    /\ last.info.first
    /\ last.info.result # {}

\* C11: when the open fails, connect() rejects and init() ends: the page
\* never gets a connection, no store transaction is ever created (also
\* when the user submits a form afterwards) and the stores stay as they
\* were; the open is not tried again in that page load.
C11_OpenFailureStops ==
    /\ openFailed => (~connected /\ queue = <<>>)
    /\ last.op = "connect.error" => (openFailed /\ Snapshot = last.pre)
    /\ (openFailed /\ last.op = "submit.error") => Snapshot = last.pre

\* a form submitted after the open failed
C11_Witness ==
    /\ openFailed
    /\ last.op = "submit.error"
    /\ categories # {}

\* C12: a handler that writes creates its write transaction without starting
\* the refresh with it; its continuation (the resolved add/delete promise,
\* the oncomplete of a direct put) runs in the step in which the write
\* commits: in the state it leaves, the store holds the write and the
\* refresh (updateUI) is the transaction created last.
C12_RefreshAfterCommit ==
    /\ last.op = "issue"
          => ((\E i \in DOMAIN last.issued : last.issued[i].rw)
                 => \A i \in DOMAIN last.issued : last.issued[i].rw)
    /\ LET refreshStarted == queue # <<>> /\ queue[Len(queue)] = UpdateUI IN
       /\ (last.op = "addCategory" /\ last.info.added)
             => /\ [id |-> last.id, name |-> last.info.name] \in categories
                /\ refreshStarted
       /\ last.op = "editCategory.done"
             => /\ [id |-> last.id, name |-> last.info.new] \in categories
                /\ \A t \in transactions : t.category # last.info.old
                /\ refreshStarted
       /\ (last.op = "deleteCategory" /\ last.info.confirmed /\ last.info.found)
             => /\ last.id \notin Keys(categories)
                /\ refreshStarted
       /\ last.op = "addTransaction"
             => /\ \E t \in transactions :
                      /\ t.id = last.id
                      /\ t.category = last.info.fields.category
                      /\ t.amount = last.info.fields.amount
                /\ refreshStarted
       /\ (last.op = "deleteTransaction" /\ last.info.confirmed)
             => /\ last.id \notin Keys(transactions)
                /\ refreshStarted
       /\ last.op = "saveBudget"
             => /\ [id |-> last.id, month |-> last.info.month,
                    category |-> last.info.category,
                    limit |-> last.info.limit] \in budgets
                /\ refreshStarted
       /\ (last.op = "deleteBudget" /\ last.info.confirmed)
             => /\ last.id \notin Keys(budgets)
                /\ refreshStarted

\* a budget save committed while an earlier refresh was still reading: the
\* store holds the record and a new refresh has just been started
C12_Witness ==
    /\ last.op = "saveBudget"
    /\ [id |-> last.id, month |-> last.info.month,
        category |-> last.info.category, limit |-> last.info.limit] \in budgets
    /\ last.pre.buds # budgets
    /\ Len(queue) >= 2
    /\ queue[Len(queue)] = UpdateUI

\* C13: budget aggregation (stated as claimed; the code violates it): the
\* budget table shows exactly the budgets read whose month is currentMonth;
\* for each, real is the sum of the amounts of the expense transactions read
\* whose date begins with currentMonth and whose category is the budget's
\* (0 without any), and the deviation is limit - real.
C13_BudgetAggregation ==
    last.op = "renderBudgets"
    => LET month == last.info.month
           shown == {b \in last.info.budgets : b.month = month}
           RECURSIVE Sum(_)
           Sum(S) == IF S = {} THEN 0
                     ELSE LET t == CHOOSE x \in S : TRUE
                          IN t.amount + Sum(S \ {t})
           Spent(category) ==
               Sum({t \in last.info.transactions :
                       /\ t.type = "expense"
                       /\ SubSeq(t.date, 1, 7) = month
                       /\ t.category = category})
       IN /\ {r.id : r \in last.info.rows} = {b.id : b \in shown}
          /\ Cardinality(last.info.rows) = Cardinality(shown)
          /\ \A r \in last.info.rows :
                \E b \in shown :
                    /\ r.id = b.id
                    /\ r.category = b.category
                    /\ r.limit = b.limit
                    /\ r.real = Spent(b.category)
                    /\ r.diff = b.limit - r.real

\* C14: budget status classification (stated as claimed; the code violates
\* it): every budget of the period gets exactly one row of the budget table,
\* with exactly one of the three status classes, by real/limit*100
\* (limit > 0): at most 80 is normal (text-success), above 80 and at most
\* 100 is warning (text-warning), above 100 is over budget (text-danger); so
\* 80 of 100 is normal, 100 of 100 is warning and 105 of 100 is over budget.
C14_BudgetStatusThresholds ==
    (last.op = "renderBudgets" /\ last.info.table)
    => LET shown == {b \in last.info.budgets : b.month = last.info.month}
           Classified(r) ==
               /\ r.statusClass \in {"text-success", "text-warning", "text-danger"}
               /\ r.limit > 0
                     => /\ r.real * 100 <= 80 * r.limit
                           <=> r.statusClass = "text-success"
                        /\ (r.real * 100 > 80 * r.limit /\ r.real * 100 <= 100 * r.limit)
                           <=> r.statusClass = "text-warning"
                        /\ r.real * 100 > 100 * r.limit
                           <=> r.statusClass = "text-danger"
               /\ (r.limit = 100 /\ r.real = 80) => r.statusClass = "text-success"
               /\ (r.limit = 100 /\ r.real = 100) => r.statusClass = "text-warning"
               /\ (r.limit = 100 /\ r.real = 105) => r.statusClass = "text-danger"
       IN /\ \A r \in last.info.rows : Classified(r)
          /\ \A b \in shown :
                /\ Cardinality({r \in last.info.rows : r.id = b.id}) = 1
                /\ \A r \in last.info.rows : r.id = b.id => r.limit = b.limit

\* C15: the division-by-zero guard (stated as claimed; the code violates
\* it): a budget of the period with limit 0 gets a row with percentage 0 and
\* the normal status whatever was spent, a budget of the period with nothing
\* spent gets a row with percentage 0, and the dashboard's budget percentage
\* is 0 when the limits of the period's budgets add up to 0 (also without
\* budgets); none of these raises an error.
C15_DivisionByZeroGuard ==
    /\ last.op = "renderBudgets"
          => LET month == last.info.month
                 shown == {b \in last.info.budgets : b.month = month}
                 spent(b) == {t \in last.info.transactions :
                                 /\ t.type = "expense"
                                 /\ SubSeq(t.date, 1, 7) = month
                                 /\ t.category = b.category}
             IN /\ \A r \in last.info.rows : r.percent.den # 0
                /\ \A b \in shown :
                      (b.limit = 0 \/ spent(b) = {})
                      => /\ ~last.info.threw
                         /\ \E r \in last.info.rows :
                               /\ r.id = b.id
                               /\ r.percent.num = 0
                               /\ b.limit = 0 => r.statusClass = "text-success"
    /\ last.op = "updateDashboard"
          => LET shown == {b \in last.info.budgets : b.month = last.info.month}
             IN /\ last.info.view.budgetStatus.den # 0
                /\ (\A b \in shown : b.limit = 0)
                      => last.info.view.budgetStatus.num = 0

\* C16: dashboard aggregation (stated as claimed; the code violates it):
\* the dashboard's income and expense are the sums of the amounts of the
\* current period's income and expense transactions, balance is their
\* difference, expensesByCat gives each category with an expense in the
\* period the sum of those expenses; its values add up to expense and each
\* equals what renderBudgets computes for the category from the same
\* transactions.
C16_DashboardAggregation ==
    last.op = "updateDashboard"
    => LET month == last.info.month
           view == last.info.view
           inPeriod == {t \in last.info.transactions :
                           SubSeq(t.date, 1, 7) = month}
           RECURSIVE Sum(_)
           Sum(S) == IF S = {} THEN 0
                     ELSE LET t == CHOOSE x \in S : TRUE
                          IN t.amount + Sum(S \ {t})
           RECURSIVE Total(_)
           Total(C) == IF C = {} THEN 0
                       ELSE LET c == CHOOSE x \in C : TRUE
                            IN view.expensesByCat[c].num + Total(C \ {c})
           forBudgets == ExpensesByCategory(last.info.transactions, month)
       IN /\ view.income = Sum({t \in inPeriod : t.type = "income"})
          /\ view.expense = Sum({t \in inPeriod : t.type = "expense"})
          /\ view.balance = view.income - view.expense
          /\ DOMAIN view.expensesByCat =
                {t.category : t \in {x \in inPeriod : x.type = "expense"}}
          /\ \A c \in DOMAIN view.expensesByCat :
                view.expensesByCat[c] =
                    JsNumber(Sum({t \in inPeriod :
                                     t.type = "expense" /\ t.category = c}))
          /\ Total(DOMAIN view.expensesByCat) = view.expense
          /\ DOMAIN forBudgets = DOMAIN view.expensesByCat
          /\ \A c \in DOMAIN forBudgets : forBudgets[c] = view.expensesByCat[c]

\* C17: the trend has one label for each month (first seven characters of
\* the date) in which any transaction read falls, whatever currentMonth is,
\* in ascending order, and the value of a month is its income minus its
\* expense, not a running total.
C17_BalanceTrend ==
    last.op = "updateDashboard"
    => LET labels == last.info.view.trendLabels
           data == last.info.view.trendData
           RECURSIVE Sum(_)
           Sum(S) == IF S = {} THEN 0
                     ELSE LET t == CHOOSE x \in S : TRUE
                          IN t.amount + Sum(S \ {t})
           Of(m) == {t \in last.info.transactions : SubSeq(t.date, 1, 7) = m}
       IN /\ {labels[i] : i \in DOMAIN labels} =
                {SubSeq(t.date, 1, 7) : t \in last.info.transactions}
          /\ \A i, j \in DOMAIN labels : i < j => StringLess(labels[i], labels[j])
          /\ DOMAIN data = DOMAIN labels
          /\ \A i \in DOMAIN labels :
                data[i] = JsNumber(Sum({t \in Of(labels[i]) : t.type = "income"})
                                   - Sum({t \in Of(labels[i]) : t.type = "expense"}))

\* monthly nets 100, -50 and 30 for 2024-01 to 2024-03
C17_Witness ==
    /\ last.op = "updateDashboard"
    /\ last.info.view.trendLabels = <<"2024-01", "2024-02", "2024-03">>
    /\ last.info.view.trendData = <<JsNumber(100), JsNumber(0 - 50), JsNumber(30)>>
    /\ last.info.month = "2024-04"

\* C18: handleDateChange(v) sets currentMonth to v and starts a refresh,
\* whose renders follow one another (categories, transactions, budgets,
\* dashboard); when no refresh and no handler is pending any more, the
\* budget table and the dashboard shown were computed with the final
\* currentMonth and from the final contents of the stores.
C18_PeriodChangeRecompute ==
    /\ last.op = "handleDateChange"
          => /\ currentMonth = last.info.value
             /\ last.info.issued = <<UpdateUI>>
             /\ queue # <<>>
             /\ queue[Len(queue)] = UpdateUI
    /\ last.op = "renderCategories"
          => queue[Len(queue)].k = "renderTransactions"
    /\ last.op = "renderTransactions"
          => queue[Len(queue)].k = "renderBudgets.budgets"
    /\ last.op = "renderBudgets"
          => queue[Len(queue)].k = "updateDashboard.txs"
    /\ (connected /\ queue = <<>> /\ views \notin {Unobserved, NotKept, NoViews})
          => /\ views.budgets =
                   [month |-> currentMonth, budgets |-> budgets,
                    transactions |-> transactions]
             /\ views.dashboard =
                   [month |-> currentMonth, transactions |-> transactions,
                    budgets |-> budgets]

\* C19: a delete handler asks before it creates any store transaction, and a
\* declined deleteCategory, deleteTransaction or deleteBudget leaves
\* everything as it was: the three stores, currentMonth, editingTxId, and
\* the store transactions pending (none is created).
C19_DeclinedNoSideEffect ==
    (/\ last.op \in {"deleteCategory", "deleteTransaction", "deleteBudget"}
     /\ ~last.info.confirmed)
        => /\ Snapshot = last.pre
           /\ currentMonth = last.info.month
           /\ editingTxId = last.info.editing
           /\ queue = last.info.queue

\* the delete of a stored transaction declined while a refresh is reading
C19_Witness ==
    /\ last.op = "deleteTransaction"
    /\ ~last.info.confirmed
    /\ last.id \in Keys(transactions)
    /\ queue # <<>>
    /\ ops >= 1

\* C20: the delete of the category row is created only when every
\* transaction delete of the same deleteCategory call has committed: no
\* state holds both a pending category delete and a pending transaction
\* delete of one call; while a category delete is pending, and when it has
\* removed the row, the transactions the call scanned are gone and none of
\* its deletes is pending (a call whose deletes do not all complete never
\* gets to delete the category).
C20_CategoryAfterCascade ==
    LET PendingDeletes(call) ==
            {j \in DOMAIN queue : /\ queue[j].k = "deleteCategory.tx"
                                  /\ queue[j].loc.call = call}
    IN
    /\ \A i \in DOMAIN queue :
          queue[i].k = "deleteCategory.row"
             => /\ PendingDeletes(queue[i].loc.call) = {}
                /\ queue[i].loc.ids \cap Keys(transactions) = {}
    /\ (last.op = "deleteCategory" /\ last.info.confirmed /\ last.info.found)
          => /\ PendingDeletes(last.info.call) = {}
             /\ last.info.ids \cap Keys(transactions) = {}

\* the category delete of a call that had two transactions to delete is
\* pending: both are gone from the store
C20_Witness ==
    \E i \in DOMAIN queue :
        /\ queue[i].k = "deleteCategory.row"
        /\ Cardinality(queue[i].loc.ids) >= 2
        /\ queue[i].loc.ids \cap Keys(transactions) = {}
        /\ queue[i].loc.id \in Keys(categories)

\* C21: the count that deleteCategory reports (txsToDelete.length) is the
\* number of transactions that the deletes of this call removed from the
\* store.
C21_CountIsRemoved ==
    (last.op = "deleteCategory" /\ last.info.confirmed /\ last.info.found)
        => last.info.count = last.info.removed

\* C22: each chart slot holds at most one chart that has not been destroyed:
\* the charts alive are exactly those registered in this.charts, one per
\* slot at most, so every chart that renderCharts replaced was destroyed,
\* also when refreshes overlap.
C22_ChartSlots ==
    /\ undestroyed = {charts[s] : s \in DOMAIN charts} \ {NULL}
    /\ \A s, t \in DOMAIN charts :
          (charts[s] # NULL /\ charts[s] = charts[t]) => s = t
    /\ last.op = "updateDashboard"
          => \A s \in DOMAIN charts : charts[s] # NULL <=> HasCanvas(document, s)

\* a refresh that overlaps another has drawn the dashboard over the four
\* charts of an earlier one: four charts are alive
C22_Witness ==
    /\ last.op = "updateDashboard"
    /\ last.info.replaced = DOMAIN ChartSlots
    /\ Cardinality(undestroyed) = Len(ChartSlots)
    /\ \E i \in DOMAIN queue : queue[i].k \in {"updateDashboard.txs",
                                                "updateDashboard.budgets"}

\* C23: editCategory(id) and deleteCategory(id) go on only when the
\* categories they read hold a record with that id; when they do not (the
\* category was deleted before), the handler returns at once: it creates no
\* store transaction (no write, no cascade, no refresh), reports no count,
\* and the three stores are as they were.
C23_MissingRecordGuard ==
    /\ last.op = "editCategory"
          => /\ last.info.found <=> last.id \in Keys(last.info.result)
             /\ ~last.info.found
                   => /\ last.info.issued = <<>>
                      /\ Snapshot = last.pre
                      /\ "answer" \notin DOMAIN last.info
    /\ last.op = "deleteCategory.find" => last.id \in Keys(last.info.result)
    /\ (last.op = "deleteCategory" /\ last.info.confirmed /\ ~last.info.found)
          => /\ last.id \notin Keys(last.info.result)
             /\ last.info.issued = <<>>
             /\ Snapshot = last.pre
             /\ "count" \notin DOMAIN last.info
             /\ \A i \in DOMAIN queue :
                   "call" \in DOMAIN queue[i].loc
                      => queue[i].loc.call # last.info.call

\* deleteCategory on a category that an earlier deleteCategory has removed
\* (its key was given out, its record is gone), the other categories and a
\* transaction still stored
C23_Witness ==
    /\ last.op = "deleteCategory"
    /\ last.info.confirmed
    /\ ~last.info.found
    /\ last.id < catKey
    /\ last.info.result # {}
    /\ transactions # {}
    /\ ops = 2

\* C24: addCategory with an empty name creates no store transaction (no
\* write, no refresh) and leaves the stores as they were; with a name it
\* adds one record, with that name and a key that no category had, and
\* changes nothing else in the three stores, whether or not a category of
\* that name exists.
C24_AddCategory ==
    /\ (last.op = "addCategory" /\ ~last.info.added)
          => /\ last.info.name = ""
             /\ last.info.issued = <<>>
             /\ queue = last.info.queue
             /\ Snapshot = last.pre
    /\ (last.op = "addCategory" /\ last.info.added)
          => /\ last.info.name # ""
             /\ last.id \notin Keys(last.pre.cats)
             /\ \A c \in last.pre.cats : c.id < last.id
             /\ categories = last.pre.cats
                                \cup {[id |-> last.id, name |-> last.info.name]}
             /\ Cardinality(categories) = Cardinality(last.pre.cats) + 1
             /\ transactions = last.pre.txs
             /\ budgets = last.pre.buds
    /\ last.op = "issue"
          => \A i \in DOMAIN last.issued :
                last.issued[i].k = "addCategory" => last.issued[i].arg.name # ""

\* a second category with a name that a stored category has
C24_Witness ==
    /\ last.op = "addCategory"
    /\ last.info.added
    /\ \E c \in last.pre.cats : c.name = last.info.name
    /\ Cardinality({c \in categories : c.name = last.info.name}) = 2

\* C25: when a confirmed deleteCategory(C.id) has run to completion (the
\* category row is deleted), no stored transaction has the name C had as its
\* category, whatever other handlers did in between.
C25_NoOrphanTransactions ==
    (last.op = "deleteCategory" /\ last.info.confirmed /\ last.info.found)
        => \A t \in transactions : t.category # last.info.name

\* C26: the category handlers never write the budgets (a step that changes
\* them is the commit of a saveBudget or of a deleteBudget; the commits of a
\* rename, of a cascaded delete and of a category delete leave them as they
\* were); the commit of deleteTransaction removes the record with that id
\* from the transactions and the commit of deleteBudget the record with that
\* id from the budgets, and each leaves the other two stores unchanged.
C26_CascadeFrame ==
    [][/\ budgets' # budgets => last'.op \in {"saveBudget", "deleteBudget"}
       /\ last'.op = "editCategory.done" => budgets' = budgets
       /\ (transactions' # transactions /\ last'.op = "none")
             => /\ \E i \in DOMAIN queue : queue[i].k = "deleteCategory.tx"
                /\ budgets' = budgets
                /\ categories' = categories
                /\ Cardinality(transactions') = Cardinality(transactions) - 1
       /\ (last'.op = "deleteCategory" /\ last'.info.confirmed)
             => /\ budgets' = budgets
                /\ transactions' = transactions
                /\ categories' = categories \ Find(categories, last'.id)
       /\ (last'.op = "deleteTransaction" /\ last'.info.confirmed)
             => /\ transactions' = transactions \ Find(transactions, last'.id)
                /\ Cardinality(transactions \ transactions') <= 1
                /\ categories' = categories
                /\ budgets' = budgets
       /\ (last'.op = "deleteBudget" /\ last'.info.confirmed)
             => /\ budgets' = budgets \ Find(budgets, last'.id)
                /\ Cardinality(budgets \ budgets') <= 1
                /\ categories' = categories
                /\ transactions' = transactions
      ]_vars

\* a rename has committed and a budget still names the old category, next to
\* the budgets it had before
C26_Witness ==
    /\ last.op = "editCategory.done"
    /\ \E b \in budgets : b.category = last.info.old
    /\ budgets = last.pre.buds
    /\ transactions # last.pre.txs


====
